---- MODULE Spec2Model ----
(***************************************************************************)
(* The displacement animation controller of the fault-simulation widgets.  *)
(*                                                                         *)
(* The repository holds four copies of the same React controller           *)
(* (FaultSimulation, PlateScenario and two FaultTypeSimulation variants);  *)
(* they differ in MAX_DISPLACEMENT, ANIMATION_DURATION and the slider      *)
(* wiring.  The variable `variant` selects the copy.                       *)
(*                                                                         *)
(* State is the component's useState cells (displacement, isPlaying), its  *)
(* useRef cells (animationRef, startTimeRef, startDisplacementRef) and the *)
(* browser's list of pending animation-frame callbacks.  Every action is   *)
(* one event handler or one frame callback TOGETHER WITH the re-render and *)
(* effect flush React performs before the next event: a state is a         *)
(* "settled" state of the component.                                       *)
(*                                                                         *)
(* Numbers: JavaScript numbers are modelled as exact rationals <<n, d>> in *)
(* lowest terms with d > 0.  Time is counted in grid units; one unit is    *)
(* ANIMATION_DURATION / TicksPerDuration milliseconds.                     *)
(*                                                                         *)
(* Spec is one widget of any variant.  SpecHome is the home page: three    *)
(* PlateScenario panels, each with its own cells and refs, sharing the     *)
(* browser's frame queue.  The geometry mappers (generatePlatePaths,       *)
(* getBlockTransforms, FaultSimulation's block offsets) are pure           *)
(* operators evaluated at the displacement the controller holds.           *)
(***************************************************************************)
EXTENDS Integers, Sequences, FiniteSets, TLC

VARIABLES
    variant,               \* which copy of the controller is mounted
    displacement,          \* useState(0): rational
    isPlaying,             \* useState(false)
    animationRef,          \* useRef<number|null>(null): 0 is null, else a request id
    startTimeRef,          \* useRef<number>(0): timestamp in grid units, 0 is falsy
    startDisplacementRef,  \* useRef<number>(0): rational
    pending,               \* the browser's pending requestAnimationFrame callbacks
    clock,                 \* least timestamp the next frame callback may receive
    mounted,               \* the component is mounted
    \* history variables (observers of the run, read by no action guard)
    lastOp,                \* the operation that produced this state
    lastUserOp,            \* the last operation that was not a frame tick
    lastTick,              \* timestamp of the last frame tick, -1 if none
    prevTick,              \* timestamp of the tick before the last one, -1 if none
    playTicks,             \* number of ticks since the most recent play()
    playT0,                \* timestamp of the first tick after the most recent play()
    playS0,                \* displacement held when that first tick ran
    pausedDisp,            \* displacement at the most recent pause()
    resumed,               \* the most recent play() directly followed a pause()
    sliderRaw,             \* raw value of the most recent slider gesture
    beforeOp,              \* displacement just before the most recent operation
    beforePending,         \* number of frames pending just before that operation
    \* the home page: three PlateScenario panels mounted at once
    panels,                \* per panel: its useState and useRef cells
    homeFrames,            \* the page's pending requestAnimationFrame callbacks
    homeClock,             \* least timestamp the page's next frame callback may receive
    actor,                 \* history: the panel the last operation belonged to
    \* the four copies of the controller, driven side by side
    copies,                \* per copy: its cells, refs and pending callbacks
    copiesClock            \* least timestamp the copies' next callbacks may receive

vars == <<variant, displacement, isPlaying, animationRef, startTimeRef,
          startDisplacementRef, pending, clock, mounted,
          lastOp, lastUserOp, lastTick, prevTick, playTicks, playT0, playS0,
          pausedDisp, resumed, sliderRaw, beforeOp, beforePending,
          panels, homeFrames, homeClock, actor, copies, copiesClock>>

\* the single widget's variables and the home page's variables
widgetVars == <<variant, displacement, isPlaying, animationRef, startTimeRef,
                startDisplacementRef, pending, clock, mounted,
                lastOp, lastUserOp, lastTick, prevTick, playTicks, playT0,
                playS0, pausedDisp, resumed, sliderRaw, beforeOp, beforePending>>

homeVars == <<panels, homeFrames, homeClock, actor>>

copyVars == <<copies, copiesClock>>

----------------------------------------------------------------------------
(* Bounds of the model *)

\* grid units per ANIMATION_DURATION: timestamps are multiples of DURATION / TicksPerDuration
TicksPerDuration == 2
\* largest timestamp (grid units) a frame callback receives
MaxTime == 5

----------------------------------------------------------------------------
(* Program constants *)

MAX_DISPLACEMENT_FaultSimulation == 150
ANIMATION_DURATION_FaultSimulation == 8000
MAX_DISPLACEMENT_PlateScenario == 1
ANIMATION_DURATION_PlateScenario == 4000
MAX_DISPLACEMENT_Curved == 50
ANIMATION_DURATION_Curved == 3500
MAX_DISPLACEMENT_Isometric == 40
ANIMATION_DURATION_Isometric == 3000
\* <Slider max={100}> and v[0] / 100 of PlateScenario
SLIDER_MAX_PlateScenario == 100

Variants == {"FaultSimulation", "PlateScenario", "Curved", "Isometric"}

MAX_DISPLACEMENT ==
    CASE variant = "FaultSimulation" -> MAX_DISPLACEMENT_FaultSimulation
      [] variant = "PlateScenario"   -> MAX_DISPLACEMENT_PlateScenario
      [] variant = "Curved"          -> MAX_DISPLACEMENT_Curved
      [] variant = "Isometric"       -> MAX_DISPLACEMENT_Isometric

ANIMATION_DURATION ==
    CASE variant = "FaultSimulation" -> ANIMATION_DURATION_FaultSimulation
      [] variant = "PlateScenario"   -> ANIMATION_DURATION_PlateScenario
      [] variant = "Curved"          -> ANIMATION_DURATION_Curved
      [] variant = "Isometric"       -> ANIMATION_DURATION_Isometric

\* FaultSimulation declares isDragging and never sets it; the other copies have none
isDragging == FALSE

----------------------------------------------------------------------------
(* JavaScript number arithmetic on exact rationals *)

RECURSIVE GCD(_, _)
GCD(a, b) == IF b = 0 THEN a ELSE GCD(b, a % b)

Abs(x) == IF x < 0 THEN -x ELSE x

\* the rational n / d in lowest terms, d # 0
Rat(n, d) ==
    LET g == GCD(Abs(n), Abs(d))
        s == IF d < 0 THEN -1 ELSE 1
    IN  <<(s * n) \div g, (s * d) \div g>>

Num(n) == <<n, 1>>

RAdd(a, b) ==
    LET g == GCD(a[2], b[2])
        l == (a[2] \div g) * b[2]
    IN  Rat(a[1] * (l \div a[2]) + b[1] * (l \div b[2]), l)

RNeg(a) == <<-a[1], a[2]>>

RSub(a, b) == RAdd(a, RNeg(b))

RMul(a, b) ==
    LET x == Rat(a[1], b[2])
        y == Rat(b[1], a[2])
    IN  Rat(x[1] * y[1], x[2] * y[2])

RDiv(a, b) == RMul(a, Rat(b[2], b[1]))

RLe(a, b) == RSub(a, b)[1] <= 0

RLt(a, b) == RSub(a, b)[1] < 0

\* Math.min
MathMin(a, b) == IF RLe(a, b) THEN a ELSE b

\* Math.pow(x, 3)
Pow3(x) == RMul(x, RMul(x, x))

\* a timestamp of the grid, in milliseconds
Ms(t) == RMul(Num(t), Rat(ANIMATION_DURATION, TicksPerDuration))

----------------------------------------------------------------------------
(* The browser's animation-frame queue *)

\* a useCallback closure of `animate`: the displacement and isPlaying of the
\* render that created it
Closure(d, p) == [displacement |-> d, isPlaying |-> p]

\* The request id returned by requestAnimationFrame.  Only animationRef ever
\* holds an id, so ids are taken up to renaming: the least id that is neither
\* pending nor held by the ref.
FreshId(pend, ref) ==
    CHOOSE i \in 1..(Cardinality(pend) + 2) :
        /\ i # ref
        /\ \A f \in pend : f.id # i
        /\ \A j \in 1..(i - 1) : j = ref \/ \E f \in pend : f.id = j

requestAnimationFrame(pend, id, cb) == pend \cup {[id |-> id, cb |-> cb]}

\* mutant: every pending callback is cancelled, whoever requested it
cancelAnimationFrame_All(pend, id) == {}

cancelAnimationFrame(pend, id) == {f \in pend : f.id # id}

----------------------------------------------------------------------------
(* The animation effect: useEffect(..., [isPlaying, isDragging, animate]) *)

\* mutant: the effect returns no cleanup
EffectCleanup_None(ref, pend) == pend

\* return () => { if (animationRef.current) cancelAnimationFrame(animationRef.current) }
EffectCleanup(ref, pend) ==
    IF ref # 0 THEN cancelAnimationFrame(pend, ref) ELSE pend

\* mutant: the negation of isDragging is missing
EffectStarts_Dragging(p) == p /\ isDragging

\* if (isPlaying && !isDragging)
EffectStarts(p) == p /\ ~isDragging

\* mutant: `animate` is rebuilt only when isPlaying changes
EffectDepsChanged_IsPlayingOnly(d0, p0, d1, p1) == p0 # p1

\* mutant: the effect's dependency list names displacement only
EffectDepsChanged_DisplacementOnly(d0, p0, d1, p1) == d0 # d1

\* `animate` is rebuilt when isPlaying or displacement changes, and the effect
\* depends on isPlaying and animate: it re-runs exactly when one of the two
\* state cells changed (a setState to the same value bails out).
EffectDepsChanged(d0, p0, d1, p1) == d0 # d1 \/ p0 # p1

\* The re-render after a handler or frame callback changed state from
\* (d0, p0) to (d1, p1) with refs (ref, st) and frame queue pend: the previous
\* effect's cleanup, then the effect body.  Yields the refs and the queue.
Render(d0, p0, d1, p1, ref, st, pend) ==
    IF ~EffectDepsChanged(d0, p0, d1, p1)
    THEN [ref |-> ref, st |-> st, pend |-> pend]
    ELSE LET cleaned == EffectCleanup(ref, pend)
             id == FreshId(cleaned, ref)
         IN  IF EffectStarts(p1)
             THEN [ref |-> id, st |-> 0,
                   pend |-> requestAnimationFrame(cleaned, id, Closure(d1, p1))]
             ELSE [ref |-> ref, st |-> st, pend |-> cleaned]

----------------------------------------------------------------------------
(* animate(timestamp) *)

\* if (!startTimeRef.current) startTimeRef.current = timestamp
CaptureStartTime(t) == IF startTimeRef = 0 THEN t ELSE startTimeRef

\* mutant: the start displacement is captured as 0
CaptureStartDisplacement_Zero(cb) ==
    IF startTimeRef = 0 THEN Num(0) ELSE startDisplacementRef

\* if (!startTimeRef.current) startDisplacementRef.current = displacement
CaptureStartDisplacement(cb) ==
    IF startTimeRef = 0 THEN cb.displacement ELSE startDisplacementRef

\* Math.min(elapsed / ANIMATION_DURATION, 1), elapsed in milliseconds
Progress(elapsed) == MathMin(RDiv(elapsed, Num(ANIMATION_DURATION)), Num(1))

\* 1 - Math.pow(1 - progress, 3)
easeOutCubic(progress) == RSub(Num(1), Pow3(RSub(Num(1), progress)))

\* mutant: the remaining distance is taken as MAX_DISPLACEMENT
NewDisplacement_FullRange(s0, eased) ==
    RAdd(s0, RMul(Num(MAX_DISPLACEMENT), eased))

\* startDisplacementRef.current + (MAX_DISPLACEMENT - startDisplacementRef.current) * eased
NewDisplacement(s0, eased) ==
    RAdd(s0, RMul(RSub(Num(MAX_DISPLACEMENT), s0), eased))

\* progress of a callback that runs at timestamp t with start time st
ProgressAt(t, st) == Progress(RSub(Ms(t), Ms(st)))

\* mutant: the next frame is requested while not playing
RequestsNext_NotPlaying(progress, cb) == RLt(progress, Num(1)) /\ ~cb.isPlaying

\* if (progress < 1 && isPlaying) requestAnimationFrame(animate)
RequestsNext(progress, cb) == RLt(progress, Num(1)) /\ cb.isPlaying

\* mutant: the completion branch is missing
Completes_Never(progress, cb) == FALSE

\* else if (progress >= 1) setIsPlaying(false)
Completes(progress, cb) == ~RequestsNext(progress, cb) /\ RLe(Num(1), progress)

----------------------------------------------------------------------------
(* The slider *)

\* the `max` prop of <Slider>: MAX_DISPLACEMENT, or 100 in PlateScenario
SliderMax ==
    IF variant = "PlateScenario" THEN SLIDER_MAX_PlateScenario ELSE MAX_DISPLACEMENT

\* The Slider component (components/ui/slider) reports a value of its range
\* [0, max] whatever the pointer position: the raw position is clamped.
SliderClamp(raw) ==
    IF raw < 0 THEN 0 ELSE IF raw > SliderMax THEN SliderMax ELSE raw

\* onValueChange: handleSliderChange, or (v) => handleSliderChange([v[0] / 100])
OnValueChange(v) ==
    IF variant = "PlateScenario" THEN Rat(v, SLIDER_MAX_PlateScenario) ELSE Num(v)

\* raw pointer positions tried: below the track, its ends, its middle, a
\* quarter, beyond the track
SliderInputs ==
    {-1, 0, SliderMax \div 4, SliderMax \div 2, SliderMax, SliderMax + 1}

----------------------------------------------------------------------------
(* The home page: SCENARIOS.map(type => <PlateScenario type={type} />)       *)

\* the `type` prop of the three panels; it keys the instances
Instances == {"2-plate", "3-plate", "4-plate"}

\* useState(0), useState(false), useRef(null), useRef(0), useRef(0)
PanelInit ==
    [displacement |-> Num(0), isPlaying |-> FALSE, animationRef |-> 0,
     startTimeRef |-> 0, startDisplacementRef |-> Num(0)]

InitHome ==
    /\ panels = [i \in Instances |-> PanelInit]
    /\ homeFrames = {}
    /\ homeClock = 0
    /\ actor = "none"

----------------------------------------------------------------------------
(* The four copies side by side, each with its own frame queue               *)

\* useState / useRef initial values of a copy; nothing is pending
CopyInit ==
    [displacement |-> Num(0), isPlaying |-> FALSE, animationRef |-> 0,
     startTimeRef |-> 0, startDisplacementRef |-> Num(0), pending |-> {}]

InitCopies ==
    /\ copies = [v \in Variants |-> CopyInit]
    /\ copiesClock = 0

----------------------------------------------------------------------------
(* State after construction: useState / useRef initial values; the mount     *)
(* effect finds isPlaying false and requests nothing.                        *)

InitWidget ==
    /\ variant \in Variants
    /\ displacement = Num(0)
    /\ isPlaying = FALSE
    /\ animationRef = 0
    /\ startTimeRef = 0
    /\ startDisplacementRef = Num(0)
    /\ pending = {}
    /\ clock = 0
    /\ mounted = TRUE
    /\ lastOp = "init"
    /\ lastUserOp = "init"
    /\ lastTick = -1
    /\ playTicks = 0
    /\ playT0 = -1
    /\ playS0 = Num(0)
    /\ pausedDisp = Num(0)
    /\ resumed = FALSE
    /\ sliderRaw = 0
    /\ beforeOp = Num(0)
    /\ beforePending = 0
    /\ prevTick = -1

Init == InitWidget /\ InitHome /\ InitCopies

----------------------------------------------------------------------------
(* Handlers.  Each sets the state cells and refs as its code does and then   *)
(* settles through Render.                                                   *)

\* the state cells and refs after a handler body, settled by the re-render
Settle(d1, p1, st1, sd1, ref1, pend1) ==
    LET r == Render(displacement, isPlaying, d1, p1, ref1, st1, pend1)
    IN  /\ displacement' = d1
        /\ isPlaying' = p1
        /\ startDisplacementRef' = sd1
        /\ startTimeRef' = r.st
        /\ animationRef' = r.ref
        /\ pending' = r.pend

\* mutant: displacement > MAX_DISPLACEMENT
AtMax_Strict == RLt(Num(MAX_DISPLACEMENT), displacement)

\* if (displacement >= MAX_DISPLACEMENT)
AtMax == RLe(Num(MAX_DISPLACEMENT), displacement)

\* mutant: the button always restarts from 0
handlePlayPause_AlwaysRestart ==
    Settle(Num(0), ~isPlaying, 0, Num(0), animationRef, pending)

\* handlePlayPause: reset when at max, then setIsPlaying(!isPlaying)
handlePlayPause ==
    IF AtMax
    THEN Settle(Num(0), ~isPlaying, 0, Num(0), animationRef, pending)
    ELSE Settle(displacement, ~isPlaying, startTimeRef, startDisplacementRef,
                animationRef, pending)

\* mutant: the start markers are not cleared
handleReset_KeepsStart ==
    Settle(Num(0), FALSE, startTimeRef, startDisplacementRef, animationRef, pending)

\* handleReset
handleReset ==
    Settle(Num(0), FALSE, 0, Num(0), animationRef, pending)

\* mutant: setDisplacement(value[0]) is missing
handleSliderChange_NoAssign(value) ==
    Settle(displacement, FALSE, startTimeRef, startDisplacementRef, animationRef, pending)

\* mutant: setIsPlaying(false) is missing
handleSliderChange_KeepsPlaying(value) ==
    Settle(value, isPlaying, startTimeRef, startDisplacementRef, animationRef, pending)

\* handleSliderChange(value): setIsPlaying(false); setDisplacement(value[0])
handleSliderChange(value) ==
    Settle(value, FALSE, startTimeRef, startDisplacementRef, animationRef, pending)

\* animate(timestamp) run as the callback of frame f at timestamp t
animate(f, t) ==
    LET cb == f.cb
        st1 == CaptureStartTime(t)
        sd1 == CaptureStartDisplacement(cb)
        progress == ProgressAt(t, st1)
        newDisplacement == NewDisplacement(sd1, easeOutCubic(progress))
        fired == pending \ {f}
        id == FreshId(fired, animationRef)
        again == RequestsNext(progress, cb)
        pend1 == IF again THEN requestAnimationFrame(fired, id, cb) ELSE fired
        ref1 == IF again THEN id ELSE animationRef
        p1 == IF Completes(progress, cb) THEN FALSE ELSE isPlaying
    IN  IF mounted
        THEN Settle(newDisplacement, p1, st1, sd1, ref1, pend1)
        ELSE \* setState on an unmounted component is ignored; no render follows
             /\ UNCHANGED <<displacement, isPlaying>>
             /\ startTimeRef' = st1
             /\ startDisplacementRef' = sd1
             /\ animationRef' = ref1
             /\ pending' = pend1

----------------------------------------------------------------------------
(* Actions *)

\* the Play / Replay button: handlePlayPause while not playing
Play ==
    /\ mounted
    /\ ~isPlaying
    /\ handlePlayPause
    /\ lastOp' = "play"
    /\ lastUserOp' = "play"
    /\ playTicks' = 0
    /\ playT0' = -1
    /\ playS0' = Num(0)
    /\ resumed' = (lastOp = "pause")
    /\ sliderRaw' = 0
    /\ beforeOp' = displacement
    /\ beforePending' = Cardinality(pending)
    /\ UNCHANGED <<variant, clock, mounted, lastTick, prevTick, pausedDisp>>
    /\ UNCHANGED <<homeVars, copyVars>>

\* the Pause button: handlePlayPause while playing
Pause ==
    /\ mounted
    /\ isPlaying
    /\ handlePlayPause
    /\ lastOp' = "pause"
    /\ lastUserOp' = "pause"
    /\ playTicks' = 0
    /\ playT0' = -1
    /\ playS0' = Num(0)
    /\ pausedDisp' = displacement
    /\ resumed' = FALSE
    /\ sliderRaw' = 0
    /\ beforeOp' = displacement
    /\ beforePending' = Cardinality(pending)
    /\ UNCHANGED <<variant, clock, mounted, lastTick, prevTick>>
    /\ UNCHANGED <<homeVars, copyVars>>

\* the Reset button
Reset ==
    /\ mounted
    /\ handleReset
    /\ lastOp' = "reset"
    /\ lastUserOp' = "reset"
    /\ playTicks' = 0
    /\ playT0' = -1
    /\ playS0' = Num(0)
    /\ pausedDisp' = Num(0)
    /\ resumed' = FALSE
    /\ sliderRaw' = 0
    /\ beforeOp' = displacement
    /\ beforePending' = Cardinality(pending)
    /\ UNCHANGED <<variant, clock, mounted, lastTick, prevTick>>
    /\ UNCHANGED <<homeVars, copyVars>>

\* a slider gesture at raw pointer position raw
SliderChange ==
    \E raw \in SliderInputs :
        /\ mounted
        /\ handleSliderChange(OnValueChange(SliderClamp(raw)))
        /\ lastOp' = "slider"
        /\ lastUserOp' = "slider"
        /\ playTicks' = 0
        /\ playT0' = -1
        /\ playS0' = Num(0)
        /\ pausedDisp' = Num(0)
        /\ resumed' = FALSE
        /\ sliderRaw' = raw
        /\ beforeOp' = displacement
        /\ beforePending' = Cardinality(pending)
        /\ UNCHANGED <<variant, clock, mounted, lastTick, prevTick>>
        /\ UNCHANGED <<homeVars, copyVars>>

\* the browser runs a pending frame callback with a timestamp later than
\* every earlier one
Tick ==
    \E f \in pending : \E t \in clock..MaxTime :
        /\ animate(f, t)
        /\ clock' = t + 1
        /\ lastOp' = "tick"
        /\ lastTick' = t
        /\ prevTick' = lastTick
        /\ playTicks' = playTicks + 1
        /\ playT0' = IF playTicks = 0 THEN t ELSE playT0
        /\ playS0' = IF playTicks = 0 THEN displacement ELSE playS0
        /\ beforeOp' = displacement
        /\ beforePending' = Cardinality(pending)
        /\ UNCHANGED <<variant, mounted, lastUserOp, pausedDisp, resumed, sliderRaw>>
        /\ UNCHANGED <<homeVars, copyVars>>

\* the component unmounts: the effect's cleanup runs
Unmount ==
    /\ mounted
    /\ mounted' = FALSE
    /\ pending' = EffectCleanup(animationRef, pending)
    /\ lastOp' = "unmount"
    /\ lastUserOp' = "unmount"
    /\ playTicks' = 0
    /\ playT0' = -1
    /\ playS0' = Num(0)
    /\ pausedDisp' = Num(0)
    /\ resumed' = FALSE
    /\ sliderRaw' = 0
    /\ beforeOp' = displacement
    /\ beforePending' = Cardinality(pending)
    /\ UNCHANGED <<variant, displacement, isPlaying, animationRef, startTimeRef,
                   startDisplacementRef, clock, lastTick, prevTick>>
    /\ UNCHANGED <<homeVars, copyVars>>

Next == Play \/ Pause \/ Reset \/ SliderChange \/ Tick \/ Unmount

Spec == Init /\ [][Next]_vars

----------------------------------------------------------------------------
(* Vocabulary of the properties, written from the specification's formulas   *)
(* and independent of the operators that model the code.                     *)

\* a tick of the play in progress: only ticks have run since the last play()
InPlayTick == lastOp = "tick" /\ lastUserOp = "play"

\* clamp(v, lo, hi) on rationals
Clamp(v, lo, hi) == IF RLt(v, lo) THEN lo ELSE IF RLt(hi, v) THEN hi ELSE v

\* the value the most recent slider gesture asked for, in displacement units
SliderRequested ==
    IF variant = "PlateScenario" THEN Rat(sliderRaw, 100) ELSE Num(sliderRaw)

\* (t - t0) / animationDuration for grid timestamps
Fraction(t, t0) == Rat(t - t0, TicksPerDuration)

\* s0 + (max - s0) * (1 - (1 - p)^3) with p = min((t - t0) / duration, 1)
EasedDisplacement(s0, t0, t) ==
    LET p == IF t - t0 >= TicksPerDuration THEN Num(1) ELSE Fraction(t, t0)
        q == RSub(Num(1), p)
        eased == RSub(Num(1), RMul(q, RMul(q, q)))
    IN  RAdd(s0, RMul(RSub(Num(MAX_DISPLACEMENT), s0), eased))

----------------------------------------------------------------------------
C3_FollowsEasedCurve ==
    (InPlayTick /\ playT0 > 0) =>
        /\ displacement = EasedDisplacement(playS0, playT0, lastTick)
        /\ isPlaying => (startTimeRef = playT0 /\ startDisplacementRef = playS0)

(* C4: max 40, duration 3000, from displacement 0: play(), tick(0),          *)
(* tick(1500), tick(3000) gives 0, then 35, then 40 with isPlaying false.    *)
C4_Run(n, ms) ==
    /\ variant = "Isometric"
    /\ InPlayTick
    /\ playS0 = Num(0)
    /\ playT0 = 0
    /\ playTicks = n
    /\ Ms(lastTick) = Num(ms)
    /\ n = 3 => Ms(prevTick) = Num(1500)

C4_ConcreteScenario ==
    /\ C4_Run(1, 0) => displacement = Num(0)
    /\ C4_Run(2, 1500) => displacement = Num(35)
    /\ C4_Run(3, 3000) => (displacement = Num(40) /\ ~isPlaying)

(* C5: with only ticks after play(), by the first tick at least one          *)
(* animationDuration after the play's first tick, displacement =             *)
(* maxDisplacement and isPlaying is false.  Stated for plays whose first     *)
(* tick has a timestamp > 0.                                                 *)
C5_CompletesWithinDuration ==
    (InPlayTick /\ playT0 > 0 /\ lastTick - playT0 >= TicksPerDuration) =>
        (displacement = Num(MAX_DISPLACEMENT) /\ ~isPlaying)

(* C6: between two consecutive ticks of one play, displacement does not      *)
(* decrease.                                                                 *)
C6_Monotone ==
    [][(InPlayTick /\ lastOp' = "tick") => RLe(displacement, displacement')]_vars

\* a second tick of a play has strictly increased displacement
C6_Witness ==
    /\ InPlayTick
    /\ playTicks >= 2
    /\ RLt(beforeOp, displacement)

(* C7: play(); tick; pause(); play(); tick(t1): the first tick of the second *)
(* play captures the displacement held at pause() as start displacement and  *)
(* t1 as start time, and displacement never falls below the paused value.    *)
C7_ResumeFromMidpoint ==
    (resumed /\ InPlayTick) =>
        /\ playTicks = 1 =>
              /\ startDisplacementRef = pausedDisp
              /\ startTimeRef = lastTick
              /\ displacement = pausedDisp
        /\ RLe(pausedDisp, displacement)

\* the first tick after resuming from a paused value that is neither 0 nor max
C7_Witness ==
    /\ resumed
    /\ InPlayTick
    /\ playTicks = 1
    /\ RLt(Num(0), pausedDisp)
    /\ startDisplacementRef = pausedDisp

(* C8: after reset(), no frame callback scheduled before it changes the      *)
(* state: displacement stays 0 and isPlaying false until the next user       *)
(* operation.                                                                *)
C8_ResetCancelsStaleTick ==
    lastUserOp = "reset" => (displacement = Num(0) /\ ~isPlaying)

\* reset() ran while a frame was pending and displacement was not 0
C8_Witness ==
    /\ lastOp = "reset"
    /\ beforePending > 0
    /\ RLt(Num(0), beforeOp)
    /\ displacement = Num(0)

(* C9: in every settled state with isPlaying false, or after unmount, no     *)
(* frame request is pending.                                                 *)
C9_NoPendingWhenStopped ==
    (~isPlaying \/ ~mounted) => pending = {}

\* pause() or unmount ran while a frame was pending
C9_Witness ==
    /\ lastOp \in {"pause", "unmount"}
    /\ beforePending > 0
    /\ pending = {}

(* C10: setDisplacement(v) from any state, playing with a frame pending      *)
(* included, leaves isPlaying false, and no later frame callback changes     *)
(* displacement from the assigned value before play is invoked again.        *)
C10_SliderStopsAnimation ==
    lastUserOp = "slider" =>
        /\ ~isPlaying
        /\ pending = {}
        /\ displacement = OnValueChange(SliderClamp(sliderRaw))

\* the slider was moved while playing with a frame pending
C10_Witness ==
    /\ lastOp = "slider"
    /\ beforePending > 0
    /\ displacement # beforeOp
    /\ ~isPlaying

(* C11: in every settled state of a mounted widget with isPlaying true a     *)
(* frame callback is pending: a tick with progress < 1 requests the next     *)
(* one, and nothing but completion or cancellation ends the ticking.         *)
C11_PlayingHasPendingFrame ==
    (mounted /\ isPlaying) => Cardinality(pending) >= 1

\* a later tick of a play left the animation playing with a frame requested
C11_Witness ==
    /\ InPlayTick
    /\ playTicks >= 2
    /\ isPlaying
    /\ pending # {}
    /\ RLt(displacement, Num(MAX_DISPLACEMENT))

C13_ResetYieldsInitial ==
    [][lastOp' = "reset" =>
          /\ displacement' = Num(0)
          /\ ~isPlaying'
          /\ startTimeRef' = 0
          /\ startDisplacementRef' = Num(0)
          /\ pending' = {}
          /\ lastOp = "reset" =>
                UNCHANGED <<displacement, isPlaying, animationRef, startTimeRef,
                            startDisplacementRef, pending>>]_vars

\* reset() ran on a playing animation whose start markers were captured
C13_Witness ==
    /\ lastOp = "reset"
    /\ lastTick >= 1
    /\ beforePending > 0
    /\ RLt(Num(0), beforeOp)
    /\ startTimeRef = 0
    /\ startDisplacementRef = Num(0)

(* C14: play() at displacement >= max sets displacement to 0 and isPlaying   *)
(* true, so the replay eases from 0; play() below max sets isPlaying true    *)
(* and keeps displacement.                                                   *)
C14_PlayResetsAtMax ==
    lastOp = "play" =>
        /\ isPlaying
        /\ displacement =
              (IF RLe(Num(MAX_DISPLACEMENT), beforeOp) THEN Num(0) ELSE beforeOp)
        /\ \A f \in pending : f.cb.displacement = displacement
        /\ RLe(Num(MAX_DISPLACEMENT), beforeOp) =>
              (startTimeRef = 0 /\ startDisplacementRef = Num(0))

\* Replay was pressed at full displacement
C14_Witness ==
    /\ lastOp = "play"
    /\ beforeOp = Num(MAX_DISPLACEMENT)
    /\ displacement = Num(0)
    /\ isPlaying

(* C15: pause() changes only isPlaying (to false) and the pending frame:     *)
(* displacement, the start markers and the request id held are as before.    *)
C15_PauseKeepsDisplacement ==
    [][lastOp' = "pause" =>
          /\ ~isPlaying'
          /\ pending' = {}
          /\ UNCHANGED <<displacement, startTimeRef, startDisplacementRef,
                         animationRef>>]_vars

\* pause() ran mid-way through an animation
C15_Witness ==
    /\ lastOp = "pause"
    /\ RLt(Num(0), displacement)
    /\ RLt(displacement, Num(MAX_DISPLACEMENT))
    /\ displacement = beforeOp
    /\ startTimeRef = 0

\* the animation has run to its end
Completed ==
    /\ lastOp = "tick"
    /\ ~isPlaying
    /\ displacement = Num(MAX_DISPLACEMENT)

(* C16: once an animation has completed, no frame is pending and the only    *)
(* steps that leave the state are explicit user operations (play, reset,     *)
(* slider) or unmount: no further tick runs and nothing loops.               *)
C16_StopOnComplete ==
    [][Completed =>
          /\ pending = {}
          /\ lastOp' \in {"play", "reset", "slider", "unmount"}]_vars

\* a play ran to completion
C16_Witness ==
    /\ Completed
    /\ lastUserOp = "play"
    /\ RLt(beforeOp, Num(MAX_DISPLACEMENT))

\* ---------------------------------------------------------------------
\* Parametric geometry mappers: pure functions of the fault type and the
\* displacement the controller holds.  Decimal literals are exact
\* rationals; a transform is its translation and its rotation angle.
\* ---------------------------------------------------------------------

\* the `type` prop of FaultTypeSimulation
FaultTypes == {"strike-slip", "normal", "reverse"}

\* a decimal literal with one fractional digit: Tenths(8) is 0.8
Tenths(n) == Rat(n, 10)

\* the displacement used as it is, without the division
Normalized_Raw(disp, max) == disp

\* const d = displacement / MAX_DISPLACEMENT (curved variant)
Normalized(disp, max) == RDiv(disp, Num(max))

\* translate(x, y) rotate(rotate ...); a transform without rotate() has angle 0
Transform(x, y, rotate) == [x |-> x, y |-> y, rotate |-> rotate]

\* strike-slip with both plates shifted and translated the same way
generatePlatePaths_SameSign(type, d) ==
    LET offset == RMul(d, Num(35))
        t == Transform(Num(0), RMul(offset, Tenths(8)), Num(0))
    IN  [leftShift |-> offset, rightShift |-> offset,
         leftTransform |-> t, rightTransform |-> t]

\* generatePlatePaths of the curved variant: leftShift / rightShift are the
\* terms the strike-slip paths add to the x coordinates of the plates'
\* facing edges (the other types draw fixed paths), leftTransform /
\* rightTransform are the groups' transforms
generatePlatePaths(type, d) ==
    CASE type = "strike-slip" ->
           LET offset == RMul(d, Num(35))
           IN  [leftShift |-> RNeg(offset),
                rightShift |-> offset,
                leftTransform |->
                    Transform(Num(0), RMul(RNeg(offset), Tenths(8)), Num(0)),
                rightTransform |->
                    Transform(Num(0), RMul(offset, Tenths(8)), Num(0))]
      [] type = "normal" ->
           LET dropY == RMul(d, Num(40))
               pullX == RMul(d, Num(15))
               rotation == RMul(d, Num(5))
           IN  [leftShift |-> Num(0),
                rightShift |-> Num(0),
                leftTransform |->
                    Transform(RMul(RNeg(pullX), Tenths(3)), Num(0), Num(0)),
                rightTransform |-> Transform(pullX, dropY, rotation)]
      [] type = "reverse" ->
           LET riseY == RMul(d, Num(35))
               pushX == RMul(d, Num(20))
               rotation == RMul(d, Num(-4))
           IN  [leftShift |-> Num(0),
                rightShift |-> Num(0),
                leftTransform |-> Transform(pushX, RNeg(riseY), rotation),
                rightTransform |->
                    Transform(RMul(RNeg(pushX), Tenths(2)), Num(0), Num(0))]

\* mutant: the reverse case lifts the left block by 0.5 d instead of 0.6 d
getBlockTransforms_WeakReverse(type, disp) ==
    LET d == disp
    IN  CASE type = "strike-slip" ->
               [left |-> [x |-> RMul(RNeg(d), Tenths(8)), y |-> Num(0)],
                right |-> [x |-> RMul(d, Tenths(8)), y |-> Num(0)]]
          [] type = "normal" ->
               [left |-> [x |-> RMul(RNeg(d), Tenths(3)),
                          y |-> RMul(d, Tenths(6))],
                right |-> [x |-> RMul(d, Tenths(3)),
                           y |-> RMul(RNeg(d), Tenths(2))]]
          [] type = "reverse" ->
               [left |-> [x |-> RMul(d, Tenths(3)),
                          y |-> RMul(RNeg(d), Tenths(5))],
                right |-> [x |-> RMul(RNeg(d), Tenths(3)),
                           y |-> RMul(d, Tenths(2))]]

\* getBlockTransforms with the normal and the reverse cases exchanged
getBlockTransforms_Swapped(type, disp) ==
    LET d == disp
        normal == [left |-> [x |-> RMul(RNeg(d), Tenths(3)),
                             y |-> RMul(d, Tenths(6))],
                   right |-> [x |-> RMul(d, Tenths(3)),
                              y |-> RMul(RNeg(d), Tenths(2))]]
        reverse == [left |-> [x |-> RMul(d, Tenths(3)),
                              y |-> RMul(RNeg(d), Tenths(6))],
                    right |-> [x |-> RMul(RNeg(d), Tenths(3)),
                               y |-> RMul(d, Tenths(2))]]
    IN  CASE type = "strike-slip" ->
               [left |-> [x |-> RMul(RNeg(d), Tenths(8)), y |-> Num(0)],
                right |-> [x |-> RMul(d, Tenths(8)), y |-> Num(0)]]
          [] type = "normal" -> reverse
          [] type = "reverse" -> normal

\* getBlockTransforms of the isometric variant: const d = displacement
getBlockTransforms(type, disp) ==
    LET d == disp
    IN  CASE type = "strike-slip" ->
               [left |-> [x |-> RMul(RNeg(d), Tenths(8)), y |-> Num(0)],
                right |-> [x |-> RMul(d, Tenths(8)), y |-> Num(0)]]
          [] type = "normal" ->
               [left |-> [x |-> RMul(RNeg(d), Tenths(3)),
                          y |-> RMul(d, Tenths(6))],
                right |-> [x |-> RMul(d, Tenths(3)),
                           y |-> RMul(RNeg(d), Tenths(2))]]
          [] type = "reverse" ->
               [left |-> [x |-> RMul(d, Tenths(3)),
                          y |-> RMul(RNeg(d), Tenths(6))],
                right |-> [x |-> RMul(RNeg(d), Tenths(3)),
                           y |-> RMul(d, Tenths(2))]]

\* the animate targets of FaultSimulation's two ridge blocks
BlockAnimate(disp) ==
    [left |-> [x |-> RMul(RNeg(disp), Tenths(7)),
               y |-> RMul(disp, Tenths(3))],
     right |-> [x |-> RMul(disp, Tenths(7)),
                y |-> RMul(RNeg(disp), Tenths(3))]]

\* what a variant renders for (type, displacement) when its
\* MAX_DISPLACEMENT is max: the curved variant maps d, the isometric
\* variant and FaultSimulation map the displacement itself
PlateGeometry(v, type, disp, max) ==
    CASE v = "Curved" -> generatePlatePaths(type, Normalized(disp, max))
      [] v = "Isometric" -> getBlockTransforms(type, disp)
      [] v = "FaultSimulation" -> BlockAnimate(disp)

\* ---------------------------------------------------------------------
\* C18: endpoints of the geometry mappers
\* ---------------------------------------------------------------------

\* magnitude of a rational
RAbs(a) == <<Abs(a[1]), a[2]>>

\* the numbers a mapper's output consists of, in a fixed order
CurvedComponents(g) ==
    <<g.leftShift, g.rightShift,
      g.leftTransform.x, g.leftTransform.y, g.leftTransform.rotate,
      g.rightTransform.x, g.rightTransform.y, g.rightTransform.rotate>>

IsoComponents(g) == <<g.left.x, g.left.y, g.right.x, g.right.y>>

Range(s) == {s[i] : i \in DOMAIN s}

\* the components of what the current variant draws for `type`
Components(type) ==
    IF variant = "Curved"
    THEN CurvedComponents(generatePlatePaths(type,
                              Normalized(displacement, MAX_DISPLACEMENT)))
    ELSE IsoComponents(getBlockTransforms(type, displacement))

\* the full values the claim lists, as magnitudes
ListedFull(type) ==
    CASE type = "strike-slip" -> {Num(35)}
      [] type = "normal" -> {Num(40), Num(15), Num(5)}
      [] type = "reverse" -> {Num(35), Num(20), Num(4)}

\* the curved mapper's output at d = 1
CurvedFull(type) ==
    CASE type = "strike-slip" ->
           <<Num(-35), Num(35), Num(0), Num(-28), Num(0),
             Num(0), Num(28), Num(0)>>
      [] type = "normal" ->
           <<Num(0), Num(0), Rat(-9, 2), Num(0), Num(0),
             Num(15), Num(40), Num(5)>>
      [] type = "reverse" ->
           <<Num(0), Num(0), Num(20), Num(-35), Num(-4),
             Num(-4), Num(0), Num(0)>>

\* the isometric mapper's output at displacement 40
IsoFull(type) ==
    CASE type = "strike-slip" -> <<Num(-32), Num(0), Num(32), Num(0)>>
      [] type = "normal" -> <<Num(-12), Num(24), Num(12), Num(-8)>>
      [] type = "reverse" -> <<Num(12), Num(-24), Num(-12), Num(8)>>

FullComponents(type) ==
    IF variant = "Curved" THEN CurvedFull(type) ELSE IsoFull(type)

HasFaultTypeMapper == variant \in {"Curved", "Isometric"}

\* C18 as stated: in both cited mappers and for every fault type, all
\* translations and rotations are zero at displacement 0, and at
\* displacement = MAX_DISPLACEMENT each listed full value (35; 40, 15, 5;
\* 35, 20, -4) is the magnitude of an offset the mapper produces.  This is
\* the weakest reading of the claim; the isometric mapper produces none of
\* the listed values (its offsets are 32, 12, 24 and 8).
C18_ListedEndpoints ==
    HasFaultTypeMapper =>
        \A type \in FaultTypes :
            /\ displacement = Num(0) =>
                   \A c \in Range(Components(type)) : c = Num(0)
            /\ displacement = Num(MAX_DISPLACEMENT) =>
                   ListedFull(type) \subseteq
                       {RAbs(c) : c \in Range(Components(type))}

\* C18 amended: in both mappers and for every fault type, every translation
\* and rotation is exactly zero at displacement 0, no component ever exceeds
\* its full-displacement magnitude, and at displacement = MAX_DISPLACEMENT
\* the output is exactly the mapper's own full geometry: the listed values
\* for the curved mapper (with secondary offsets 28, -4.5 and -4), and
\* 32 / (12, 24, 8) without rotation for the isometric mapper.
C18_Endpoints ==
    HasFaultTypeMapper =>
        \A type \in FaultTypes :
            LET c == Components(type)
                full == FullComponents(type)
            IN  /\ displacement = Num(0) =>
                       \A i \in DOMAIN c : c[i] = Num(0)
                /\ displacement = Num(MAX_DISPLACEMENT) => c = full
                /\ DOMAIN c = DOMAIN full
                /\ \A i \in DOMAIN c : RLe(RAbs(c[i]), RAbs(full[i]))

\* the isometric widget has run to completion: its mapper is at full
\* displacement
C18_Witness ==
    /\ variant = "Isometric"
    /\ Completed
    /\ getBlockTransforms("strike-slip", displacement).right.x = Num(32)

\* ---------------------------------------------------------------------
\* C19: strike-slip symmetry
\* ---------------------------------------------------------------------

\* C19: for the strike-slip geometry and every displacement the controller
\* reaches, the left plate's offsets are the negation of the right plate's
\* on every component: path shift and group transform of the curved
\* variant, x and y of the isometric variant, x and y of FaultSimulation's
\* two blocks; in the curved variant (full lateral offset 35) the shift at
\* d = 1/2 is 17.5 for each plate, in opposite directions.
C19_StrikeSlipSymmetric ==
    /\ variant = "Curved" =>
           LET d == Normalized(displacement, MAX_DISPLACEMENT)
               g == generatePlatePaths("strike-slip", d)
           IN  /\ g.leftShift = RNeg(g.rightShift)
               /\ g.leftTransform.x = RNeg(g.rightTransform.x)
               /\ g.leftTransform.y = RNeg(g.rightTransform.y)
               /\ g.leftTransform.rotate = RNeg(g.rightTransform.rotate)
               /\ RAbs(g.leftShift) = RMul(d, Num(35))
               /\ d = Rat(1, 2) =>
                      /\ g.leftShift = Rat(-35, 2)
                      /\ g.rightShift = Rat(35, 2)
    /\ variant = "Isometric" =>
           LET g == getBlockTransforms("strike-slip", displacement)
           IN  /\ g.left.x = RNeg(g.right.x)
               /\ g.left.y = RNeg(g.right.y)
    /\ variant = "FaultSimulation" =>
           LET g == BlockAnimate(displacement)
           IN  /\ g.left.x = RNeg(g.right.x)
               /\ g.left.y = RNeg(g.right.y)

\* the curved widget's slider has been set to half of the range
C19_Witness ==
    /\ variant = "Curved"
    /\ lastOp = "slider"
    /\ Normalized(displacement, MAX_DISPLACEMENT) = Rat(1, 2)
    /\ generatePlatePaths("strike-slip", Rat(1, 2)).rightShift = Rat(35, 2)

\* ---------------------------------------------------------------------
\* C20: normalisation of the displacement
\* ---------------------------------------------------------------------

\* the variants whose geometry the claim cites
GeometryVariants == {"Curved", "Isometric", "FaultSimulation"}

\* factors by which displacement and MAX_DISPLACEMENT are scaled together
ScaleFactors == {2, 3}

\* d = displacement / MAX_DISPLACEMENT lies in [0, 1]
NormalizedInUnit ==
    LET d == Normalized(displacement, MAX_DISPLACEMENT)
    IN  RLe(Num(0), d) /\ RLe(d, Num(1))

\* the geometry of variant v depends on (displacement, max) only through
\* displacement / max: scaling both by k changes nothing
ScaleInvariant(v) ==
    \A type \in FaultTypes : \A k \in ScaleFactors :
        PlateGeometry(v, type, RMul(Num(k), displacement),
                      k * MAX_DISPLACEMENT)
            = PlateGeometry(v, type, displacement, MAX_DISPLACEMENT)

HomeMaxTime == 2

\* a panel's `animate` closure: it also closes over the panel's own refs
\* and setters
PanelClosure(i, d, p) == [inst |-> i, displacement |-> d, isPlaying |-> p]

\* the pending callbacks that belong to panel i
PanelFrames(i, fr) == {f \in fr : f.cb.inst = i}

\* The browser never hands out a request id twice.  Ids are taken up to
\* renaming: the least id that is neither pending nor held by any panel's
\* animationRef.
HomeFreshId(ps, fr) ==
    LET used == {ps[j].animationRef : j \in Instances} \cup {f.id : f \in fr}
    IN  CHOOSE n \in 1..(Cardinality(used) + 1) :
            /\ n \notin used
            /\ \A m \in 1..(n - 1) : m \in used

\* the re-render of panel i after its handler or callback left it as s1,
\* with fr pending: effect cleanup, then the effect body
PanelRender(i, s1, ps, fr) ==
    LET s0 == ps[i]
    IN  IF ~EffectDepsChanged(s0.displacement, s0.isPlaying,
                              s1.displacement, s1.isPlaying)
        THEN [panel |-> s1, frames |-> fr]
        ELSE LET cleaned == EffectCleanup(s1.animationRef, fr)
                 id == HomeFreshId([ps EXCEPT ![i] = s1], cleaned)
             IN  IF EffectStarts(s1.isPlaying)
                 THEN [panel |-> [s1 EXCEPT !.animationRef = id,
                                            !.startTimeRef = 0],
                       frames |-> requestAnimationFrame(cleaned, id,
                                      PanelClosure(i, s1.displacement,
                                                   s1.isPlaying))]
                 ELSE [panel |-> s1, frames |-> cleaned]

\* handlePlayPause of a panel
PanelPlayPause(s) ==
    IF RLe(Num(MAX_DISPLACEMENT), s.displacement)
    THEN [s EXCEPT !.displacement = Num(0), !.startTimeRef = 0,
                   !.startDisplacementRef = Num(0),
                   !.isPlaying = ~s.isPlaying]
    ELSE [s EXCEPT !.isPlaying = ~s.isPlaying]

\* handleReset of a panel
PanelReset(s) ==
    [s EXCEPT !.isPlaying = FALSE, !.displacement = Num(0),
              !.startTimeRef = 0, !.startDisplacementRef = Num(0)]

\* handleSliderChange of a panel
PanelSliderChange(s, value) ==
    [s EXCEPT !.isPlaying = FALSE, !.displacement = value]

\* animate(timestamp) of the panel that requested frame f, at timestamp t
PanelAnimate(f, t, ps, fr) ==
    LET cb == f.cb
        i == cb.inst
        s == ps[i]
        st1 == IF s.startTimeRef = 0 THEN t ELSE s.startTimeRef
        sd1 == IF s.startTimeRef = 0 THEN cb.displacement
                                     ELSE s.startDisplacementRef
        progress == ProgressAt(t, st1)
        newDisplacement == NewDisplacement(sd1, easeOutCubic(progress))
        fired == fr \ {f}
        again == RequestsNext(progress, cb)
        id == HomeFreshId(ps, fired)
        fr1 == IF again THEN requestAnimationFrame(fired, id, cb) ELSE fired
        s1 == [displacement |-> newDisplacement,
               isPlaying |-> IF Completes(progress, cb) THEN FALSE
                                                        ELSE s.isPlaying,
               animationRef |-> IF again THEN id ELSE s.animationRef,
               startTimeRef |-> st1,
               startDisplacementRef |-> sd1]
    IN  PanelRender(i, s1, ps, fr1)

\* panel i performed an operation with settled result r
HomeStep(i, r) ==
    /\ panels' = [panels EXCEPT ![i] = r.panel]
    /\ homeFrames' = r.frames
    /\ actor' = i
    /\ UNCHANGED <<widgetVars, copyVars>>

\* a click or drag on panel i
HomeUserStep(i, s1) ==
    /\ HomeStep(i, PanelRender(i, s1, panels, homeFrames))
    /\ UNCHANGED homeClock

HomePlay ==
    \E i \in Instances :
        /\ ~panels[i].isPlaying
        /\ HomeUserStep(i, PanelPlayPause(panels[i]))

HomePause ==
    \E i \in Instances :
        /\ panels[i].isPlaying
        /\ HomeUserStep(i, PanelPlayPause(panels[i]))

HomeReset ==
    \E i \in Instances : HomeUserStep(i, PanelReset(panels[i]))

\* raw pointer position tried on a panel's slider: the middle of the track
HomeSliderInputs == {SliderMax \div 2}

HomeSliderChange ==
    \E i \in Instances : \E raw \in HomeSliderInputs :
        HomeUserStep(i,
            PanelSliderChange(panels[i], OnValueChange(SliderClamp(raw))))

\* the browser runs a pending callback, of whichever panel, with a
\* timestamp later than every earlier one
HomeTick ==
    \E f \in homeFrames : \E t \in homeClock..HomeMaxTime :
        /\ HomeStep(f.cb.inst, PanelAnimate(f, t, panels, homeFrames))
        /\ homeClock' = t + 1

NextHome == HomePlay \/ HomePause \/ HomeReset \/ HomeSliderChange \/ HomeTick

InitPage == InitWidget /\ variant = "PlateScenario" /\ InitHome /\ InitCopies

SpecHome == InitPage /\ [][NextHome]_vars

\* C17: with the three PlateScenario panels mounted, a play, pause, reset,
\* slider change or tick of one panel leaves the displacement, isPlaying,
\* start markers, animationRef and pending frames of every other panel
\* unchanged.
C17_InstancesIndependent ==
    [][\A j \in Instances :
           j # actor' =>
               /\ panels'[j] = panels[j]
               /\ PanelFrames(j, homeFrames') = PanelFrames(j, homeFrames)]_vars

\* one panel has just been stopped in mid-run, its own frame cancelled,
\* while another panel is part-way through its run with a frame pending
C17_Witness ==
    /\ actor \in Instances
    /\ ~panels[actor].isPlaying
    /\ panels[actor].animationRef # 0
    /\ RLt(Num(0), panels[actor].displacement)
    /\ RLt(panels[actor].displacement, Num(MAX_DISPLACEMENT))
    /\ PanelFrames(actor, homeFrames) = {}
    /\ \E j \in Instances \ {actor} :
           /\ panels[j].isPlaying
           /\ PanelFrames(j, homeFrames) # {}
           /\ RLt(Num(0), panels[j].displacement)
           /\ RLt(panels[j].displacement, Num(MAX_DISPLACEMENT))

\* ---------------------------------------------------------------------
\* The plate scenarios: SCENARIOS and TectonicPlate3D
\* ---------------------------------------------------------------------

Axes == {"x", "y", "z"}

\* a decimal literal with two fractional digits: Hundredths(35) is 0.35
Hundredths(n) == Rat(n, 100)

Vec(x, y, z) == [x |-> x, y |-> y, z |-> z]

\* rotation: { x: 55, y: 0, z: -25 }, the same in every descriptor
PlateRotation == Vec(Num(55), Num(0), Num(-25))

\* a plate descriptor with a velocity
Plate(position, velocity) ==
    [position |-> position, rotation |-> PlateRotation, velocity |-> velocity]

\* mutant: the second plate of every scenario is slower than the first
SCENARIOS_Unbalanced ==
    [type \in Instances |->
        <<Plate(Vec(Num(-55), Num(0), Num(0)), Vec(Num(0), Tenths(-6), Num(0))),
          Plate(Vec(Num(55), Num(0), Num(0)), Vec(Num(0), Tenths(5), Num(0)))>>]

\* SCENARIOS: the plates of each scenario
SCENARIOS ==
    [type \in Instances |->
        CASE type = "2-plate" ->
               <<Plate(Vec(Num(-55), Num(0), Num(0)),
                       Vec(Num(0), Tenths(-6), Num(0))),
                 Plate(Vec(Num(55), Num(0), Num(0)),
                       Vec(Num(0), Tenths(6), Num(0)))>>
          [] type = "3-plate" ->
               <<Plate(Vec(Num(-45), Num(25), Num(0)),
                       Vec(Tenths(-5), Tenths(3), Num(0))),
                 Plate(Vec(Num(45), Num(25), Num(0)),
                       Vec(Tenths(5), Tenths(3), Num(0))),
                 Plate(Vec(Num(0), Num(-40), Num(0)),
                       Vec(Num(0), Tenths(-6), Num(0)))>>
          [] type = "4-plate" ->
               <<Plate(Vec(Num(-40), Num(30), Num(0)),
                       Vec(Hundredths(-35), Hundredths(-35), Num(0))),
                 Plate(Vec(Num(40), Num(30), Num(0)),
                       Vec(Hundredths(35), Hundredths(-35), Num(0))),
                 Plate(Vec(Num(-40), Num(-30), Num(0)),
                       Vec(Hundredths(-35), Hundredths(35), Num(0))),
                 Plate(Vec(Num(40), Num(-30), Num(0)),
                       Vec(Hundredths(35), Hundredths(35), Num(0)))>>]

\* a descriptor that leaves the optional velocity out
PlateWithoutVelocity ==
    [position |-> Vec(Num(10), Num(-20), Num(5)), rotation |-> PlateRotation]

\* velocity?.axis || 0
VelocityOrZero(plate, axis) ==
    IF "velocity" \in DOMAIN plate THEN plate.velocity[axis] ELSE Num(0)

\* mutant: the rotation follows the displacement
TectonicPlate3D_Turning(plate, disp) ==
    [translate3d |->
         [a \in Axes |->
             RAdd(plate.position[a],
                  RMul(RMul(VelocityOrZero(plate, a), disp), Num(50)))],
     rotate |-> [a \in Axes |-> RMul(plate.rotation[a], disp)]]

\* TectonicPlate3D: animatedPos and the rotate angles of groupTransform
TectonicPlate3D(plate, disp) ==
    [translate3d |->
         [a \in Axes |->
             RAdd(plate.position[a],
                  RMul(RMul(VelocityOrZero(plate, a), disp), Num(50)))],
     rotate |-> [a \in Axes |-> plate.rotation[a]]]

\* ---------------------------------------------------------------------
\* Arrows
\* ---------------------------------------------------------------------

\* mutant: the opacity is not capped
getStressArrows_NoCap(type, d) ==
    LET opacity == RMul(d, Num(2))
        n == IF type = "strike-slip" THEN 4 ELSE 2
    IN  [k \in 1..n |-> [opacity |-> opacity]]

\* getStressArrows of the curved variant: four arrows for strike-slip, two
\* for the other types, all with opacity Math.min(d * 2, 0.7)
getStressArrows(type, d) ==
    LET opacity == MathMin(RMul(d, Num(2)), Tenths(7))
        n == IF type = "strike-slip" THEN 4 ELSE 2
    IN  [k \in 1..n |-> [opacity |-> opacity]]

\* {displacement > 5 && stressArrows.map(...)}
StressArrowsRendered(disp) == RLt(Num(5), disp)

\* TectonicPlate3D: showArrow && velocity && (displacement > 0.05)
PlateArrowRendered(plate, showArrow, disp) ==
    showArrow /\ "velocity" \in DOMAIN plate /\ RLt(Hundredths(5), disp)

\* TectonicPlate3D: animate={{ opacity: Math.min(displacement * 1.5, 0.8) }}
PlateArrowOpacity(disp) == MathMin(RMul(disp, Tenths(15)), Tenths(8))

\* ---------------------------------------------------------------------
\* C22: threshold, then ramp
\* ---------------------------------------------------------------------

\* min(d * k, cap)
Ramp(d, k, cap) == IF RLe(RMul(d, k), cap) THEN RMul(d, k) ELSE cap

MaxOf(v) ==
    CASE v = "FaultSimulation" -> MAX_DISPLACEMENT_FaultSimulation
      [] v = "PlateScenario"   -> MAX_DISPLACEMENT_PlateScenario
      [] v = "Curved"          -> MAX_DISPLACEMENT_Curved
      [] v = "Isometric"       -> MAX_DISPLACEMENT_Isometric

\* ANIMATION_DURATION of copy v
DurationOf(v) ==
    CASE v = "FaultSimulation" -> ANIMATION_DURATION_FaultSimulation
      [] v = "PlateScenario"   -> ANIMATION_DURATION_PlateScenario
      [] v = "Curved"          -> ANIMATION_DURATION_Curved
      [] v = "Isometric"       -> ANIMATION_DURATION_Isometric

\* a timestamp of the grid in milliseconds of copy v
MsOf(v, t) == RMul(Num(t), Rat(DurationOf(v), TicksPerDuration))

\* the `max` prop of copy v's <Slider>
SliderMaxOf(v) ==
    IF v = "PlateScenario" THEN SLIDER_MAX_PlateScenario ELSE MaxOf(v)

\* onValueChange of copy v
OnValueChangeOf(v, raw) ==
    IF v = "PlateScenario" THEN Rat(raw, SLIDER_MAX_PlateScenario) ELSE Num(raw)

\* mutant: FaultSimulation's effect starts only while dragging
CopyEffectStarts_Dragging(v, p) ==
    IF v = "FaultSimulation" THEN p /\ isDragging ELSE p

\* if (isPlaying && !isDragging) in FaultSimulation, if (isPlaying) in the
\* other copies
CopyEffectStarts(v, p) ==
    IF v = "FaultSimulation" THEN p /\ ~isDragging ELSE p

\* the re-render of copy v after its handler or callback changed it from
\* s0 to s1: effect cleanup, then the effect body
CopyRender(v, s0, s1) ==
    IF ~EffectDepsChanged(s0.displacement, s0.isPlaying,
                          s1.displacement, s1.isPlaying)
    THEN s1
    ELSE LET cleaned == EffectCleanup(s1.animationRef, s1.pending)
             id == FreshId(cleaned, s1.animationRef)
         IN  IF CopyEffectStarts(v, s1.isPlaying)
             THEN [s1 EXCEPT !.animationRef = id,
                             !.startTimeRef = 0,
                             !.pending = requestAnimationFrame(cleaned, id,
                                             Closure(s1.displacement,
                                                     s1.isPlaying))]
             ELSE [s1 EXCEPT !.pending = cleaned]

\* handlePlayPause of copy v
CopyPlayPause(v, s) ==
    CopyRender(v, s,
        IF RLe(Num(MaxOf(v)), s.displacement)
        THEN [s EXCEPT !.displacement = Num(0), !.startTimeRef = 0,
                       !.startDisplacementRef = Num(0),
                       !.isPlaying = ~s.isPlaying]
        ELSE [s EXCEPT !.isPlaying = ~s.isPlaying])

\* handleReset of copy v
CopyReset(v, s) ==
    CopyRender(v, s,
        [s EXCEPT !.isPlaying = FALSE, !.displacement = Num(0),
                  !.startTimeRef = 0, !.startDisplacementRef = Num(0)])

\* handleSliderChange of copy v
CopySliderChange(v, s, value) ==
    CopyRender(v, s, [s EXCEPT !.isPlaying = FALSE, !.displacement = value])

\* animate(timestamp) of copy v for its pending frame f at grid time t
CopyAnimate(v, s, f, t) ==
    LET cb == f.cb
        st1 == IF s.startTimeRef = 0 THEN t ELSE s.startTimeRef
        sd1 == IF s.startTimeRef = 0 THEN cb.displacement
                                     ELSE s.startDisplacementRef
        elapsed == RSub(MsOf(v, t), MsOf(v, st1))
        progress == MathMin(RDiv(elapsed, Num(DurationOf(v))), Num(1))
        eased == easeOutCubic(progress)
        newDisplacement ==
            RAdd(sd1, RMul(RSub(Num(MaxOf(v)), sd1), eased))
        fired == s.pending \ {f}
        again == RLt(progress, Num(1)) /\ cb.isPlaying
        id == FreshId(fired, s.animationRef)
    IN  CopyRender(v, s,
            [displacement |-> newDisplacement,
             isPlaying |-> IF ~again /\ RLe(Num(1), progress)
                           THEN FALSE ELSE s.isPlaying,
             animationRef |-> IF again THEN id ELSE s.animationRef,
             startTimeRef |-> st1,
             startDisplacementRef |-> sd1,
             pending |-> IF again THEN requestAnimationFrame(fired, id, cb)
                                  ELSE fired])

\* slider positions tried, in fifths of the track: its ends, the middle and
\* one fifth
SliderFifths == {0, 1, 2, 5}

\* every copy's play / pause button is pressed
CopiesPlayPause ==
    /\ copies' = [v \in Variants |-> CopyPlayPause(v, copies[v])]
    /\ UNCHANGED <<copiesClock, widgetVars, homeVars>>

\* every copy's reset button is pressed
CopiesReset ==
    /\ copies' = [v \in Variants |-> CopyReset(v, copies[v])]
    /\ UNCHANGED <<copiesClock, widgetVars, homeVars>>

\* every copy's slider is moved to the same fraction q / 5 of its track
CopiesSliderChange ==
    \E q \in SliderFifths :
        /\ copies' =
               [v \in Variants |->
                   CopySliderChange(v, copies[v],
                       OnValueChangeOf(v, (q * SliderMaxOf(v)) \div 5))]
        /\ UNCHANGED <<copiesClock, widgetVars, homeVars>>

\* every copy that has a callback pending runs it, at the same grid time
CopiesTick ==
    \E t \in copiesClock..MaxTime :
        /\ \E v \in Variants : copies[v].pending # {}
        /\ copies' =
               [v \in Variants |->
                   IF copies[v].pending = {} THEN copies[v]
                   ELSE CopyAnimate(v, copies[v],
                                    CHOOSE f \in copies[v].pending : TRUE, t)]
        /\ copiesClock' = t + 1
        /\ UNCHANGED <<widgetVars, homeVars>>

NextCopies == CopiesPlayPause \/ CopiesReset \/ CopiesSliderChange \/ CopiesTick

SpecCopies == Init /\ [][NextCopies]_vars

\* displacement / MAX_DISPLACEMENT of copy v
CopyFraction(v) == RDiv(copies[v].displacement, Num(MaxOf(v)))

\* C23: fed the same operations, the four copies agree after every step on
\* isPlaying and on displacement / MAX_DISPLACEMENT (and on whether a frame
\* is pending and whether a start time is captured).
C23_CopiesAgree ==
    \A v \in Variants : \A w \in Variants :
        /\ copies[v].isPlaying = copies[w].isPlaying
        /\ CopyFraction(v) = CopyFraction(w)
        /\ Cardinality(copies[v].pending) = Cardinality(copies[w].pending)
        /\ copies[v].startTimeRef = copies[w].startTimeRef

\* every copy is part-way through a run that ticks have advanced past the
\* slider positions, with a frame pending
C23_Witness ==
    /\ copiesClock >= 2
    /\ \A v \in Variants :
           /\ copies[v].isPlaying
           /\ copies[v].pending # {}
           /\ RLt(Rat(1, 2), CopyFraction(v))
           /\ RLt(CopyFraction(v), Num(1))
    /\ copies["FaultSimulation"].displacement
           # copies["Isometric"].displacement

\* ---------------------------------------------------------------------
\* C24: every tick that moves the displacement restarts the animation
\* ---------------------------------------------------------------------

\* C24: a tick that changes displacement and leaves the widget playing ends
\* with the start time unset and exactly one frame pending, a fresh request
\* whose callback is the one rebuilt for the new displacement (the frame
\* the tick itself requested has been cancelled); and a tick that finds the
\* start time unset captures the displacement it finds as start
\* displacement and its own timestamp as start time, so that it leaves the
\* displacement where it was.
C24_TickRestarts ==
    [][lastOp' = "tick" =>
           /\ (displacement' # displacement /\ isPlaying') =>
                  /\ startTimeRef' = 0
                  /\ Cardinality(pending') = 1
                  /\ \A f \in pending' :
                         /\ f.id = animationRef'
                         /\ f.cb = Closure(displacement', TRUE)
                         /\ f \notin pending
           /\ startTimeRef = 0 =>
                  /\ startDisplacementRef' = displacement
                  /\ displacement' = displacement
                  /\ startTimeRef' = lastTick']_vars

\* the second restart in a row: a tick moved the displacement, the start
\* time is unset again and the start displacement is the one captured
\* after the previous restart
C24_Witness ==
    /\ InPlayTick
    /\ playTicks >= 4
    /\ isPlaying
    /\ startTimeRef = 0
    /\ RLt(beforeOp, displacement)
    /\ startDisplacementRef = beforeOp
    /\ RLt(Num(0), beforeOp)
    /\ Cardinality(pending) = 1

\* ---------------------------------------------------------------------
\* C25: one frame request at a time
\* ---------------------------------------------------------------------

\* C25: in every settled state of the widget, after any interleaving of
\* play, pause, reset, slider changes and ticks, at most one frame request
\* is pending, and it is the one animationRef holds.
C25_AtMostOnePending ==
    /\ Cardinality(pending) <= 1
    /\ \A f \in pending : f.id = animationRef

\* a tick requested the next frame and the re-render replaced it: one
\* frame was pending before the tick and one, a different one, after it
C25_Witness ==
    /\ lastOp = "tick"
    /\ beforePending = 1
    /\ displacement # beforeOp
    /\ Cardinality(pending) = 1
    /\ \A f \in pending : f.cb.displacement = displacement

\* ---------------------------------------------------------------------
\* C26: never playing at full displacement
\* ---------------------------------------------------------------------

\* the label of the play / pause button
ButtonLabel(playing, disp) ==
    IF playing THEN "Pause"
    ELSE IF RLe(Num(MAX_DISPLACEMENT), disp) THEN "Replay" ELSE "Play"

\* C26: no reachable state is playing with displacement >= MAX_DISPLACEMENT;
\* so the button's reset branch is taken exactly where the label reads
\* Replay, a press while playing (pause) keeps the displacement, and a
\* press while not playing sets the displacement to 0 exactly when the
\* label read Replay.
C26_NeverPlayingAtMax ==
    /\ ~(isPlaying /\ RLe(Num(MAX_DISPLACEMENT), displacement))
    /\ AtMax <=> ButtonLabel(isPlaying, displacement) = "Replay"
    /\ lastOp = "pause" => displacement = beforeOp
    /\ lastOp = "play" =>
           displacement = IF ButtonLabel(FALSE, beforeOp) = "Replay"
                          THEN Num(0) ELSE beforeOp

\* after some ticks the displacement stood at MAX_DISPLACEMENT, the button
\* read Replay, and pressing it restarted from 0
C26_Witness ==
    /\ lastOp = "play"
    /\ lastTick >= 1
    /\ ButtonLabel(FALSE, beforeOp) = "Replay"
    /\ displacement = Num(0)
    /\ ButtonLabel(isPlaying, displacement) = "Pause"

\* ---------------------------------------------------------------------
\* C28: normal and reverse are mirror motions in the isometric variant
\* ---------------------------------------------------------------------

\* C28: in the isometric variant, at every displacement the controller
\* reaches, the reverse-fault offsets of the left and of the right block
\* are the negation of the normal-fault offsets, on x and on y.
C28_ReverseMirrorsNormal ==
    variant = "Isometric" =>
        LET normal == getBlockTransforms("normal", displacement)
            reverse == getBlockTransforms("reverse", displacement)
        IN  /\ reverse.left.x = RNeg(normal.left.x)
            /\ reverse.left.y = RNeg(normal.left.y)
            /\ reverse.right.x = RNeg(normal.right.x)
            /\ reverse.right.y = RNeg(normal.right.y)

\* the isometric widget part-way through a run: both motions are under way
C28_Witness ==
    /\ variant = "Isometric"
    /\ InPlayTick
    /\ RLt(Num(0), displacement)
    /\ RLt(getBlockTransforms("reverse", displacement).left.y, Num(0))
    /\ RLt(Num(0), getBlockTransforms("normal", displacement).left.y)

\* ---------------------------------------------------------------------
\* C29: FaultSimulation's read-outs
\* ---------------------------------------------------------------------

\* mutant: rounded to the next tenth above
MathRound_Ceil(r) == -((-r[1]) \div r[2])

\* Math.round: the nearest integer, halves towards +Infinity
MathRound(r) == (2 * r[1] + r[2]) \div (2 * r[2])

\* Math.round((displacement / MAX_DISPLACEMENT) * 2.5 * 10) / 10
geologicalTime(disp) ==
    Rat(MathRound(RMul(RMul(RDiv(disp, Num(MAX_DISPLACEMENT)), Tenths(25)),
                       Num(10))), 10)

\* Math.round((displacement / MAX_DISPLACEMENT) * 5 * 10) / 10
displacementKm(disp) ==
    Rat(MathRound(RMul(RMul(RDiv(disp, Num(MAX_DISPLACEMENT)), Num(5)),
                       Num(10))), 10)

\* C29: in FaultSimulation, at every reachable displacement, displacementKm
\* lies in [0, 5] and geologicalTime in [0, 2.5]; both are 0 at displacement
\* 0 and exactly 5 and 2.5 at MAX_DISPLACEMENT, both are within half a
\* tenth of 5 d and 2.5 d, and neither decreases when the displacement
\* grows (compared across the last operation).
C29_ReadoutsBounded ==
    variant = "FaultSimulation" =>
        LET km == displacementKm(displacement)
            ma == geologicalTime(displacement)
            d == RDiv(displacement, Num(MAX_DISPLACEMENT))
        IN  /\ RLe(Num(0), km) /\ RLe(km, Num(5))
            /\ RLe(Num(0), ma) /\ RLe(ma, Tenths(25))
            /\ displacement = Num(0) => km = Num(0) /\ ma = Num(0)
            /\ displacement = Num(MAX_DISPLACEMENT) =>
                   km = Num(5) /\ ma = Tenths(25)
            /\ RLe(RAbs(RSub(km, RMul(Num(5), d))), Hundredths(5))
            /\ RLe(RAbs(RSub(ma, RMul(Tenths(25), d))), Hundredths(5))
            /\ RLe(beforeOp, displacement) =>
                   /\ RLe(displacementKm(beforeOp), km)
                   /\ RLe(geologicalTime(beforeOp), ma)
            /\ RLe(displacement, beforeOp) =>
                   /\ RLe(km, displacementKm(beforeOp))
                   /\ RLe(ma, geologicalTime(beforeOp))

\* a tick moved FaultSimulation's displacement up to a value between the
\* ends, and both read-outs grew
C29_Witness ==
    /\ variant = "FaultSimulation"
    /\ lastOp = "tick"
    /\ RLt(beforeOp, displacement)
    /\ RLt(displacement, Num(MAX_DISPLACEMENT))
    /\ RLt(displacementKm(beforeOp), displacementKm(displacement))
    /\ RLt(geologicalTime(beforeOp), geologicalTime(displacement))
    /\ RLt(displacementKm(displacement), Num(5))

\* ---------------------------------------------------------------------
\* The plate scenario among the copies: what PlateScenario hands to
\* TectonicPlate3D is its displacement
\* ---------------------------------------------------------------------

\* <TectonicPlate3D displacement={displacement} /> of the PlateScenario copy
PlateDisplacement == copies["PlateScenario"].displacement

\* ---------------------------------------------------------------------
\* C21: animated plate position
\* ---------------------------------------------------------------------

\* position + velocity * displacement * 50 on one axis
ExpectedPosition(position, velocity, disp) ==
    RAdd(position, RMul(velocity, RMul(disp, Num(50))))

\* the descriptor's output is the expected position and its own rotation
PlateOutputAsSpecified(plate, velocity) ==
    LET out == TectonicPlate3D(plate, PlateDisplacement)
    IN  \A a \in Axes :
            /\ out.translate3d[a] =
                   ExpectedPosition(plate.position[a], velocity[a],
                                    PlateDisplacement)
            /\ out.rotate[a] = plate.rotation[a]

\* C21: for every plate descriptor of the three scenarios, and for a
\* descriptor without velocity (counted as zero velocity), at every
\* displacement the plate-scenario controller reaches, the animated position
\* is position + velocity * displacement * 50 on each axis and the rotation
\* angles are the descriptor's.
C21_AnimatedPosition ==
    /\ \A type \in Instances :
           \A k \in DOMAIN SCENARIOS[type] :
               LET plate == SCENARIOS[type][k]
               IN  PlateOutputAsSpecified(plate, plate.velocity)
    /\ PlateOutputAsSpecified(PlateWithoutVelocity,
                              Vec(Num(0), Num(0), Num(0)))

\* the plate scenario part-way through a run that ticks have advanced: the
\* Pacific plate of the 2-plate scenario has moved along y only
C21_Witness ==
    /\ copiesClock >= 2
    /\ copies["PlateScenario"].isPlaying
    /\ RLt(Rat(1, 2), PlateDisplacement)
    /\ RLt(PlateDisplacement, Num(1))
    /\ LET out == TectonicPlate3D(SCENARIOS["2-plate"][1], PlateDisplacement)
       IN  /\ RLt(out.translate3d["y"], Num(0))
           /\ out.translate3d["x"] = Num(-55)
           /\ out.rotate = PlateRotation

\* ---------------------------------------------------------------------
\* C27: the plates' velocities cancel
\* ---------------------------------------------------------------------

RECURSIVE RSum(_)
\* the sum of a sequence of rationals
RSum(s) == IF s = <<>> THEN Num(0) ELSE RAdd(s[1], RSum(Tail(s)))

\* the plates' outputs at displacement disp, one per plate of the scenario
PlateOutputs(type, disp) ==
    [k \in DOMAIN SCENARIOS[type] |-> TectonicPlate3D(SCENARIOS[type][k], disp)]

\* the sum of the animated positions on axis a
PositionSum(outs, a) == RSum([k \in DOMAIN outs |-> outs[k].translate3d[a]])

\* C27: in each of the three scenarios the plates' velocities sum to zero on
\* every axis, and at every displacement the plate-scenario controller
\* reaches (all in [0, 1]) the sum of the plates' animated positions equals
\* the sum at displacement 0.
C27_CentroidFixed ==
    /\ RLe(Num(0), PlateDisplacement) /\ RLe(PlateDisplacement, Num(1))
    /\ \A type \in Instances :
           LET now == PlateOutputs(type, PlateDisplacement)
               rest == PlateOutputs(type, Num(0))
           IN  \A a \in Axes :
                   /\ RSum([k \in DOMAIN SCENARIOS[type] |->
                               SCENARIOS[type][k].velocity[a]]) = Num(0)
                   /\ PositionSum(now, a) = PositionSum(rest, a)

\* the plate scenario stopped by the slider at one fifth of its track: the
\* plates of the 3-plate scenario have moved apart
C27_Witness ==
    /\ PlateDisplacement = Rat(1, 5)
    /\ ~copies["PlateScenario"].isPlaying
    /\ \A k \in DOMAIN SCENARIOS["3-plate"] :
           TectonicPlate3D(SCENARIOS["3-plate"][k], PlateDisplacement).translate3d
               # TectonicPlate3D(SCENARIOS["3-plate"][k], Num(0)).translate3d

====
